---- MODULE Spec2Model ----
(***************************************************************************)
(* Model of dehashed_excerpt.py: the excerpt builder that resolves the     *)
(* email/name/first/last/breach columns of a CSV header, scans the data    *)
(* rows, ranks and deduplicates display strings and counts breach values.  *)
(*                                                                         *)
(* Strings are sequences of one-character strings, so that strip(),        *)
(* lower(), substring tests and the regular expression of email_domain     *)
(* are computed as the code computes them.  Rows are the field lists that  *)
(* csv.reader yields; the csv dialect itself is not modelled.  Column      *)
(* indexes are 0-based as in the code (row[i] is written row[i + 1]).      *)
(* An option that the code only tests for truthiness (None or "") is the   *)
(* empty string <<>>.                                                      *)
(***************************************************************************)
EXTENDS Integers, Sequences, FiniteSets, TLC

VARIABLES pc, args, header, header_lower, idx, rows_read, src, items,
          breaches, excerpt_list, stdout, stderr, status, sidecar,
          write_failed

vars == <<pc, args, header, header_lower, idx, rows_read, src, items,
          breaches, excerpt_list, stdout, stderr, status, sidecar,
          write_failed>>

\* ------------------------------------------------------------------ bounds
MaxRows == 3
MaxLimit == 2
MaxHdrLen == 3

\* --------------------------------------------------------- string helpers
None == -1

SetMin(S) == CHOOSE x \in S : \A y \in S : x <= y
SetMax(S) == CHOOSE x \in S : \A y \in S : x >= y

UpperChars == <<"A","B","C","D","E","F","G","H","I","J","K","L","M",
                "N","O","P","Q","R","S","T","U","V","W","X","Y","Z">>
LowerChars == <<"a","b","c","d","e","f","g","h","i","j","k","l","m",
                "n","o","p","q","r","s","t","u","v","w","x","y","z">>

lower_char(c) ==
    IF \E i \in 1..26 : UpperChars[i] = c
    THEN LowerChars[CHOOSE i \in 1..26 : UpperChars[i] = c]
    ELSE c

RECURSIVE lower(_)
lower(s) == IF s = <<>> THEN <<>> ELSE <<lower_char(Head(s))>> \o lower(Tail(s))

Whitespace == {" ", "\t", "\n", "\r"}

strip(s) ==
    LET keep == {i \in 1..Len(s) : s[i] \notin Whitespace}
    IN  IF keep = {} THEN <<>> ELSE SubSeq(s, SetMin(keep), SetMax(keep))

normalize(s) == strip(s)

contains(h, p) ==
    \E k \in 0..(Len(h) - Len(p)) : SubSeq(h, k + 1, k + Len(p)) = p

\* ---------------------------------------------------------------- ALIASES
ROLES == {"email", "name", "first", "last", "breach"}

ALIASES ==
    [email  |-> { <<"e","m","a","i","l">>,
                  <<"e","m","a","i","l","_","a","d","d","r","e","s","s">>,
                  <<"e","-","m","a","i","l">>,
                  <<"m","a","i","l">>,
                  <<"a","d","d","r">>,
                  <<"a","d","d","r","e","s","s","_","e","m","a","i","l">> },
     name   |-> { <<"n","a","m","e">>,
                  <<"f","u","l","l","_","n","a","m","e">>,
                  <<"f","u","l","l","n","a","m","e">>,
                  <<"d","i","s","p","l","a","y","_","n","a","m","e">> },
     first  |-> { <<"f","i","r","s","t","_","n","a","m","e">>,
                  <<"f","i","r","s","t","n","a","m","e">>,
                  <<"g","i","v","e","n","_","n","a","m","e">>,
                  <<"g","i","v","e","n","n","a","m","e">>,
                  <<"f","i","r","s","t">> },
     last   |-> { <<"l","a","s","t","_","n","a","m","e">>,
                  <<"l","a","s","t","n","a","m","e">>,
                  <<"s","u","r","n","a","m","e">>,
                  <<"f","a","m","i","l","y","_","n","a","m","e">>,
                  <<"f","a","m","i","l","y","n","a","m","e">>,
                  <<"l","a","s","t">> },
     breach |-> { <<"b","r","e","a","c","h">>,
                  <<"s","o","u","r","c","e">>,
                  <<"d","a","t","a","b","a","s","e">>,
                  <<"b","r","e","a","c","h","_","n","a","m","e">> }]

\* ------------------------------------------------------------- choose_col
\* enumerate(header_lower) scanned for the first 0-based index i >= k whose
\* header equals p / contains p / is in the set A.
RECURSIVE first_equal(_, _, _)
first_equal(hl, p, k) ==
    IF k >= Len(hl) THEN None
    ELSE IF hl[k + 1] = p THEN k ELSE first_equal(hl, p, k + 1)

RECURSIVE first_containing(_, _, _)
first_containing(hl, p, k) ==
    IF k >= Len(hl) THEN None
    ELSE IF contains(hl[k + 1], p) THEN k ELSE first_containing(hl, p, k + 1)

RECURSIVE first_alias(_, _, _)
first_alias(hl, A, k) ==
    IF k >= Len(hl) THEN None
    ELSE IF hl[k + 1] \in A THEN k ELSE first_alias(hl, A, k + 1)

choose_col_substring_first(hl, prefer, explicit) ==
    IF hl = <<>> THEN None
    ELSE IF explicit # <<>> /\ first_containing(hl, lower(explicit), 0) # None
         THEN first_containing(hl, lower(explicit), 0)
    ELSE first_alias(hl, ALIASES[prefer], 0)

choose_col(hl, prefer, explicit) ==
    IF hl = <<>> THEN None
    ELSE IF explicit # <<>> /\ first_equal(hl, lower(explicit), 0) # None
         THEN first_equal(hl, lower(explicit), 0)
    ELSE IF explicit # <<>> /\ first_containing(hl, lower(explicit), 0) # None
         THEN first_containing(hl, lower(explicit), 0)
    ELSE first_alias(hl, ALIASES[prefer], 0)

\* ------------------------------------------------------------- build_name
field(row, i) == IF i # None /\ i < Len(row) THEN normalize(row[i + 1]) ELSE <<>>

build_name_column_only(row, idx_name, idx_first, idx_last) ==
    field(row, idx_name)

build_name(row, idx_name, idx_first, idx_last) ==
    LET name == IF idx_name # None /\ idx_name < Len(row)
                THEN normalize(row[idx_name + 1]) ELSE <<>>
    IN  IF name # <<>> THEN name
        ELSE LET fn == IF idx_first # None /\ idx_first < Len(row)
                       THEN normalize(row[idx_first + 1]) ELSE <<>>
                 ln == IF idx_last # None /\ idx_last < Len(row)
                       THEN normalize(row[idx_last + 1]) ELSE <<>>
             IN  strip(fn \o (IF fn # <<>> /\ ln # <<>> THEN <<" ">> ELSE <<>>) \o ln)

\* ----------------------------------------------------------- email_domain
\* re.search(r"@([^>]+)$", email): the leftmost '@' that is followed, up to
\* the end of the string, by one or more characters none of which is '>'.
email_domain(email) ==
    LET starts == {i \in 1..Len(email) :
                      /\ email[i] = "@"
                      /\ i < Len(email)
                      /\ \A j \in (i + 1)..Len(email) : email[j] # ">"}
    IN  IF starts = {} THEN <<>>
        ELSE lower(SubSeq(email, SetMin(starts) + 1, Len(email)))

\* ------------------------------------------------------ main: row scanning
rank_key(prefer_domain, email, name, n) ==
    <<IF prefer_domain # <<>> /\ email_domain(email) = lower(prefer_domain)
      THEN 0 ELSE 1,
      IF name # <<>> THEN 0 ELSE 1,
      n>>

display_of(name, email) ==
    IF name # <<>> THEN name \o <<" ", "<">> \o email \o <<">">> ELSE email

\* Lines 172-175: the breach value of one row.
scan_breaches_gated_on_email(row, ix, bs) ==
    IF ix.email # None /\ ix.email < Len(row) /\ normalize(row[ix.email + 1]) # <<>>
       /\ ix.breach # None /\ ix.breach < Len(row)
       /\ normalize(row[ix.breach + 1]) # <<>>
    THEN bs \cup {normalize(row[ix.breach + 1])}
    ELSE bs

scan_breaches(row, ix, bs) ==
    IF ix.breach # None /\ ix.breach < Len(row)
       /\ normalize(row[ix.breach + 1]) # <<>>
    THEN bs \cup {normalize(row[ix.breach + 1])}
    ELSE bs

\* Lines 178-193: the display entry of one row, appended to items.
row_qualifies(row, ix) ==
    /\ ix.email # None
    /\ ix.email < Len(row)
    /\ normalize(row[ix.email + 1]) # <<>>

scan_item(row, ix, its, prefer_domain) ==
    IF ~row_qualifies(row, ix) THEN its
    ELSE LET email == normalize(row[ix.email + 1])
             name  == build_name(row, ix.name, ix.first, ix.last)
         IN  Append(its, [rank    |-> rank_key(prefer_domain, email, name, Len(its)),
                          display |-> display_of(name, email)])

\* ------------------------------------------------------ main: finalization
rank_le(a, b) ==
    \/ a[1] < b[1]
    \/ a[1] = b[1] /\ a[2] < b[2]
    \/ a[1] = b[1] /\ a[2] = b[2] /\ a[3] <= b[3]

\* list.sort(key=...) is stable: an element goes after every element whose
\* key is not greater than its own.
RECURSIVE insert_sorted_name_first(_, _)
insert_sorted_name_first(x, s) ==
    IF s = <<>> THEN <<x>>
    ELSE IF rank_le(<<Head(s).rank[2], Head(s).rank[1], Head(s).rank[3]>>,
                    <<x.rank[2], x.rank[1], x.rank[3]>>)
         THEN <<Head(s)>> \o insert_sorted_name_first(x, Tail(s))
         ELSE <<x>> \o s

RECURSIVE insert_sorted(_, _)
insert_sorted(x, s) ==
    IF s = <<>> THEN <<x>>
    ELSE IF rank_le(Head(s).rank, x.rank)
         THEN <<Head(s)>> \o insert_sorted(x, Tail(s))
         ELSE <<x>> \o s

RECURSIVE sort_from(_, _, _)
sort_from(its, k, acc) ==
    IF k > Len(its) THEN acc
    ELSE sort_from(its, k + 1, insert_sorted(its[k], acc))

sort_items_unsorted(its) == its

sort_items(its) == sort_from(its, 1, <<>>)

\* Lines 197-205: the deduplicating loop over the sorted items.
RECURSIVE dedup_loop_no_seen(_, _, _, _, _)
dedup_loop_no_seen(sorted, k, seen, out, limit) ==
    IF k > Len(sorted) THEN out
    ELSE IF Len(Append(out, sorted[k].display)) >= limit
         THEN Append(out, sorted[k].display)
         ELSE dedup_loop_no_seen(sorted, k + 1, seen, Append(out, sorted[k].display), limit)

RECURSIVE dedup_loop(_, _, _, _, _)
dedup_loop(sorted, k, seen, out, limit) ==
    IF k > Len(sorted) THEN out
    ELSE IF sorted[k].display \in seen
         THEN dedup_loop(sorted, k + 1, seen, out, limit)
         ELSE IF Len(Append(out, sorted[k].display)) >= limit
              THEN Append(out, sorted[k].display)
              ELSE dedup_loop(sorted, k + 1, seen \cup {sorted[k].display},
                              Append(out, sorted[k].display), limit)

\* ----------------------------------------------------------- main: report
Line(kind, text, n) == [kind |-> kind, text |-> text, n |-> n]

placeholder_swapped(excerpt, idx_email) ==
    IF idx_email = None THEN "no_rows_with_emails" ELSE "no_email_column"

placeholder(excerpt, idx_email) ==
    IF idx_email = None THEN "no_email_column" ELSE "no_rows_with_emails"

RECURSIVE entry_lines(_)
entry_lines(excerpt) ==
    IF excerpt = <<>> THEN <<>>
    ELSE <<Line("entry", Head(excerpt), 0)>> \o entry_lines(Tail(excerpt))

report(excerpt, idx_email, nbreaches) ==
    <<Line("title", <<>>, 0)>>
    \o (IF excerpt # <<>> THEN entry_lines(excerpt)
        ELSE <<Line(placeholder(excerpt, idx_email), <<>>, 0)>>)
    \o <<Line("blank", <<>>, 0), Line("count", <<>>, nbreaches)>>

empty_report ==
    <<Line("title", <<>>, 0), Line("empty_file", <<>>, 0),
      Line("blank", <<>>, 0), Line("count", <<>>, 0)>>

\* ------------------------------------------------------------ input pools
\* Header cells and row fields the reader can yield.
h_Email      == <<"E","m","a","i","l">>
h_first_name == <<"f","i","r","s","t","_","n","a","m","e">>
h_last_name  == <<"l","a","s","t","_","n","a","m","e">>
h_breach     == <<"b","r","e","a","c","h">>
h_name       == <<"n","a","m","e">>
h_mail       == <<"m","a","i","l">>
h_source     == <<"s","o","u","r","c","e">>
h_first      == <<"f","i","r","s","t">>
h_last       == <<"l","a","s","t">>
h_id         == <<"i","d">>
h_sp_Email   == <<" ","E","m","a","i","l">>
h_surname    == <<"s","u","r","n","a","m","e">>
e_Mail       == <<"M","a","i","l">>

HeaderPool ==
    { <<h_Email, h_first_name, h_last_name, h_breach>>,
      <<h_name, h_mail, h_source, h_first, h_last>>,
      <<h_id, h_breach>>,
      <<>> }

HeaderCells == {h_mail, h_sp_Email, h_name, h_surname}

RECURSIVE SeqsUpTo(_, _)
SeqsUpTo(S, n) ==
    IF n = 0 THEN {<<>>}
    ELSE LET shorter == SeqsUpTo(S, n - 1)
         IN  shorter \cup {Append(q, x) : q \in shorter, x \in S}

ExplicitPool == {<<>>, e_Mail, h_name}

f_ax    == <<"a","@","x">>
f_aX    == <<"a","@","X">>
f_by    == <<"b","@","y">>
f_abx   == <<"a","@","b","@","x">>
f_Ann   == <<"A","n","n">>
f_Lee   == <<"L","e","e">>
f_A     == <<"A">>
f_A_ax  == <<"A"," ","<","a","@","x",">">>
f_L     == <<"L">>
f_sp_L  == <<" ","L"," ">>
f_D     == <<"D">>
f_sp    == <<" ">>
f_empty == <<>>

RowPool ==
    { <<f_ax, f_Ann, f_Lee, f_L>>,
      <<f_by, f_empty, f_empty, f_sp_L>>,
      <<f_aX>>,
      <<f_sp, f_by, f_empty, f_D>>,
      <<f_abx, f_empty, f_Lee>>,
      <<>>,
      <<f_A_ax, f_empty, f_empty, f_empty>>,
      <<f_ax, f_A, f_empty, f_D>>,
      <<f_empty, f_ax, f_L, f_Ann, f_Lee>> }

PreferPool == {<<>>, <<"X">>}

NoCols == [r \in ROLES |-> <<>>]
NoIdx  == [r \in ROLES |-> None]

\* ------------------------------------------------------------------- Init
InitState(a) ==
    /\ pc = "start"
    /\ args = a
    /\ header = <<>>
    /\ header_lower = <<>>
    /\ idx = NoIdx
    /\ rows_read = <<>>
    /\ src = <<>>
    /\ items = <<>>
    /\ breaches = {}
    /\ excerpt_list = <<>>
    /\ stdout = <<>>
    /\ stderr = {}
    /\ status = -1
    /\ sidecar = <<>>
    /\ write_failed = FALSE

Init ==
    \E l \in 0..MaxLimit, d \in PreferPool, j \in BOOLEAN :
        InitState([limit |-> l, prefer_domain |-> d, json_file |-> j, col |-> NoCols])

InitCol ==
    \E c \in [ROLES -> ExplicitPool] :
        InitState([limit |-> 10, prefer_domain |-> <<>>, json_file |-> FALSE, col |-> c])

\* ---------------------------------------------------------------- actions
\* Lines 115-117.
FileNotFound ==
    /\ pc = "start"
    /\ pc' = "done"
    /\ stderr' = stderr \cup {"file_not_found"}
    /\ status' = 2
    /\ UNCHANGED <<args, header, header_lower, idx, rows_read, src, items,
                   breaches, excerpt_list, stdout, sidecar, write_failed>>

\* Lines 119-137.
OpenFile ==
    /\ pc = "start"
    /\ pc' = "header"
    /\ UNCHANGED <<args, header, header_lower, idx, rows_read, src, items,
                   breaches, excerpt_list, stdout, stderr, status, sidecar,
                   write_failed>>

\* Lines 140-144: next(reader) raises StopIteration.
EmptyFile ==
    /\ pc = "header"
    /\ stdout' = empty_report
    /\ pc' = IF args.json_file THEN "sidecar_empty" ELSE "done"
    /\ status' = IF args.json_file THEN status ELSE 0
    /\ UNCHANGED <<args, header, header_lower, idx, rows_read, src, items,
                   breaches, excerpt_list, stderr, sidecar, write_failed>>

\* Lines 145-148: the sidecar of the empty-file path, written outside any try.
WriteSidecarEmpty ==
    /\ pc = "sidecar_empty"
    /\ pc' = "done"
    /\ \E ok \in BOOLEAN :
          IF ok
          THEN /\ sidecar' = <<[excerpt |-> <<>>, breached_databases |-> 0]>>
               /\ status' = 0
               /\ UNCHANGED <<stderr, write_failed>>
          ELSE /\ write_failed' = TRUE
               /\ stderr' = stderr \cup {"traceback"}
               /\ status' = 1
               /\ UNCHANGED sidecar
    /\ UNCHANGED <<args, header, header_lower, idx, rows_read, src, items,
                   breaches, excerpt_list, stdout>>

\* Lines 149-151.
HeaderParseError ==
    /\ pc = "header"
    /\ pc' = "done"
    /\ stderr' = stderr \cup {"header_parse_failed"}
    /\ status' = 3
    /\ UNCHANGED <<args, header, header_lower, idx, rows_read, src, items,
                   breaches, excerpt_list, stdout, sidecar, write_failed>>

\* Lines 139, 153.
header_read(h) ==
    /\ pc = "header"
    /\ pc' = "resolve"
    /\ header' = h
    /\ header_lower' = [i \in 1..Len(h) |-> lower(normalize(h[i]))]
    /\ UNCHANGED <<args, idx, rows_read, src, items, breaches, excerpt_list,
                   stdout, stderr, status, sidecar, write_failed>>

ReadHeader == \E h \in HeaderPool : header_read(h)

ReadAnyHeader == \E h \in SeqsUpTo(HeaderCells, MaxHdrLen) : header_read(h)

\* Lines 155-159.
ResolveColumns ==
    /\ pc = "resolve"
    /\ pc' = "scan"
    /\ idx' = [r \in ROLES |-> choose_col(header_lower, r, args.col[r])]
    /\ UNCHANGED <<args, header, header_lower, rows_read, src, items, breaches,
                   excerpt_list, stdout, stderr, status, sidecar, write_failed>>

\* Lines 170-193: one iteration of the scan loop.
ScanRow ==
    /\ pc = "scan"
    /\ Len(rows_read) < MaxRows
    /\ \E row \in RowPool :
          /\ rows_read' = Append(rows_read, row)
          /\ breaches' = scan_breaches(row, idx, breaches)
          /\ items' = scan_item(row, idx, items, args.prefer_domain)
          /\ src' = IF row_qualifies(row, idx)
                    THEN Append(src, Len(rows_read) + 1) ELSE src
    /\ UNCHANGED <<pc, args, header, header_lower, idx, excerpt_list, stdout,
                   stderr, status, sidecar, write_failed>>

\* Lines 195-205: the reader is exhausted; sort and deduplicate.
Finalize ==
    /\ pc = "scan"
    /\ pc' = "report"
    /\ items' = sort_items(items)
    /\ excerpt_list' = dedup_loop(sort_items(items), 1, {}, <<>>, args.limit)
    /\ UNCHANGED <<args, header, header_lower, idx, rows_read, src, breaches,
                   stdout, stderr, status, sidecar, write_failed>>

\* Lines 207-218.
Report ==
    /\ pc = "report"
    /\ stdout' = report(excerpt_list, idx.email, Cardinality(breaches))
    /\ pc' = IF args.json_file THEN "sidecar" ELSE "done"
    /\ status' = IF args.json_file THEN status ELSE 0
    /\ UNCHANGED <<args, header, header_lower, idx, rows_read, src, items,
                   breaches, excerpt_list, stderr, sidecar, write_failed>>

\* Lines 221-229: the sidecar of the normal path, written inside try/except.
WriteSidecar ==
    /\ pc = "sidecar"
    /\ pc' = "done"
    /\ status' = 0
    /\ \E ok \in BOOLEAN :
          IF ok
          THEN /\ sidecar' = <<[excerpt |-> excerpt_list,
                                breached_databases |-> Cardinality(breaches)]>>
               /\ UNCHANGED <<stderr, write_failed>>
          ELSE /\ write_failed' = TRUE
               /\ stderr' = stderr \cup {"json_write_failed"}
               /\ UNCHANGED sidecar
    /\ UNCHANGED <<args, header, header_lower, idx, rows_read, src, items,
                   breaches, excerpt_list, stdout>>

Next ==
    \/ FileNotFound
    \/ OpenFile
    \/ EmptyFile
    \/ WriteSidecarEmpty
    \/ HeaderParseError
    \/ ReadHeader
    \/ ResolveColumns
    \/ ScanRow
    \/ Finalize
    \/ Report
    \/ WriteSidecar

Spec == Init /\ [][Next]_vars

\* Column resolution over every header of up to MaxHdrLen cells and every
\* combination of explicit column names.
NextCol ==
    \/ OpenFile
    \/ ReadAnyHeader
    \/ ResolveColumns

SpecCol == InitCol /\ [][NextCol]_vars

\* ------------------------------------------------------------- properties
Range(s) == {s[i] : i \in 1..Len(s)}

AfterScan == pc \in {"report", "sidecar", "done"}

\* The row that produced an item: rank[3] is len(items) at append time.
item_row(it) == rows_read[src[it.rank[3] + 1]]

\* The item of lowest rank key among those with display string d.
winner(d) ==
    CHOOSE it \in Range(items) :
        /\ it.display = d
        /\ \A o \in Range(items) : o.display = d => rank_le(it.rank, o.rank)

rank_lt(a, b) == rank_le(a, b) /\ a # b

\* C1: for every limit L >= 0, L = 0 included, the excerpt has length <= L.
C1_ExcerptWithinLimit == Len(excerpt_list) <= args.limit

\* C2: the excerpt contains no display string twice.
C2_NoDuplicates ==
    \A i, j \in 1..Len(excerpt_list) :
        i # j => excerpt_list[i] # excerpt_list[j]

\* Two rows with different rank flags yield the same display string and the
\* excerpt still has room for two entries.
C2_Witness ==
    /\ pc = "done"
    /\ Len(excerpt_list) >= 2
    /\ \E a, b \in Range(items) :
          /\ a.display = b.display
          /\ a.rank[1] # b.rank[1]
          /\ a.rank[2] # b.rank[2]

ExpectedBreaches ==
    {field(rows_read[k], idx.breach) : k \in 1..Len(rows_read)} \ {<<>>}

\* C3: after the scan, the reported breach count is the number of distinct
\* non-empty trimmed values at the breach column over all rows that have a
\* field there, whatever the email column, the limit and the preferred domain.
C3_BreachCount ==
    AfterScan =>
        /\ Cardinality(breaches) = Cardinality(ExpectedBreaches)
        /\ stdout # <<>> =>
              /\ stdout[Len(stdout)].kind = "count"
              /\ stdout[Len(stdout)].n = Cardinality(ExpectedBreaches)

\* A row without a usable email contributes a breach value that no other row
\* contributes, and two rows contribute the same value after trimming.
C3_Witness ==
    /\ pc = "done"
    /\ status = 0
    /\ \E k \in 1..Len(rows_read) :
          /\ ~row_qualifies(rows_read[k], idx)
          /\ field(rows_read[k], idx.breach) # <<>>
          /\ \A m \in 1..Len(rows_read) :
                m # k => field(rows_read[m], idx.breach) # field(rows_read[k], idx.breach)
    /\ \E k, m \in 1..Len(rows_read) :
          /\ idx.breach # None /\ idx.breach < Len(rows_read[k])
          /\ idx.breach < Len(rows_read[m])
          /\ rows_read[k][idx.breach + 1] # rows_read[m][idx.breach + 1]
          /\ field(rows_read[k], idx.breach) = field(rows_read[m], idx.breach)
          /\ field(rows_read[k], idx.breach) # <<>>

entry_hit(d) ==
    /\ args.prefer_domain # <<>>
    /\ email_domain(field(item_row(winner(d)), idx.email)) = lower(args.prefer_domain)

entry_named(d) ==
    build_name(item_row(winner(d)), idx.name, idx.first, idx.last) # <<>>

C5_SidecarFailureHarmless ==
    write_failed =>
        /\ status = 0
        /\ stderr # {}
        /\ stdout # <<>>

Kinds(out) == {out[i].kind : i \in 1..Len(out)}

Placeholders == {"empty_file", "no_email_column", "no_rows_with_emails"}

\* C6: with no email column the run is not fatal, every row is scanned for its
\* breach value, no display entry exists, the excerpt is empty and the report
\* shows "(no email column found)" only; "(no rows with emails found)" is
\* shown exactly when an email column is resolved and the excerpt is empty,
\* and no placeholder is shown when the excerpt is non-empty.
C6_NoEmailColumn ==
    [][ /\ pc = "report" =>
            /\ status' \in {-1, 0}
            /\ idx.email = None =>
                  /\ items = <<>>
                  /\ excerpt_list = <<>>
                  /\ breaches = ExpectedBreaches
                  /\ Kinds(stdout') \cap Placeholders = {"no_email_column"}
            /\ "no_rows_with_emails" \in Kinds(stdout')
                  <=> (idx.email # None /\ excerpt_list = <<>>)
            /\ excerpt_list # <<>> => Kinds(stdout') \cap Placeholders = {}
        /\ (pc = "sidecar" /\ pc' = "done") =>
            /\ status' = 0
            /\ stdout' = stdout ]_vars

\* A finished run over a header without email column whose rows carried
\* breach values.
C6_Witness ==
    /\ pc = "done"
    /\ status = 0
    /\ header # <<>>
    /\ idx.email = None
    /\ Len(rows_read) >= 2
    /\ Cardinality(breaches) >= 2
    /\ "no_email_column" \in Kinds(stdout)

ExactAt(r)  == {i \in 0..(Len(header_lower) - 1) :
                   header_lower[i + 1] = lower(args.col[r])}
SubstrAt(r) == {i \in 0..(Len(header_lower) - 1) :
                   contains(header_lower[i + 1], lower(args.col[r]))}
AliasAt(r)  == {i \in 0..(Len(header_lower) - 1) :
                   header_lower[i + 1] \in ALIASES[r]}

\* C7: choose_col is a strict priority chain: first exact match of the
\* explicit name, else first header containing it, else first alias of the
\* role, else none; an empty header resolves every role to none.
C7_PriorityChain ==
    pc = "scan" =>
        \A r \in ROLES :
            /\ (args.col[r] # <<>> /\ ExactAt(r) # {})
                  => idx[r] = SetMin(ExactAt(r))
            /\ (args.col[r] # <<>> /\ ExactAt(r) = {} /\ SubstrAt(r) # {})
                  => idx[r] = SetMin(SubstrAt(r))
            /\ ((args.col[r] = <<>> \/ SubstrAt(r) = {}) /\ AliasAt(r) # {})
                  => idx[r] = SetMin(AliasAt(r))
            /\ ((args.col[r] = <<>> \/ SubstrAt(r) = {}) /\ AliasAt(r) = {})
                  => idx[r] = None
            /\ header_lower = <<>> => idx[r] = None

\* An exact match that stands after a header merely containing the explicit
\* name, and a role whose explicit name matches nothing and falls to an alias.
C7_Witness ==
    /\ pc = "scan"
    /\ \E r \in ROLES :
          /\ args.col[r] # <<>>
          /\ ExactAt(r) # {}
          /\ SetMin(SubstrAt(r)) < SetMin(ExactAt(r))
    /\ \E r \in ROLES :
          /\ args.col[r] # <<>>
          /\ SubstrAt(r) = {}
          /\ AliasAt(r) # {}

\* C8: the excerpt is a prefix of the items sorted ascending by rank key with
\* only the first occurrence of each display string kept; rank keys are
\* unique and their third component follows the order the rows were seen.
C8_SortedDedupPrefix ==
    AfterScan =>
        /\ \A a, b \in 1..Len(items) :
              /\ a # b => items[a].rank # items[b].rank
              /\ items[a].rank[3] < items[b].rank[3]
                    <=> src[items[a].rank[3] + 1] < src[items[b].rank[3] + 1]
        /\ \A i \in 1..Len(excerpt_list) :
              \E it \in Range(items) : it.display = excerpt_list[i]
        /\ \A i, j \in 1..Len(excerpt_list) :
              i < j => rank_lt(winner(excerpt_list[i]).rank,
                               winner(excerpt_list[j]).rank)
        /\ \A it \in Range(items) :
              it.display \notin Range(excerpt_list) =>
                  \A i \in 1..Len(excerpt_list) :
                      rank_lt(winner(excerpt_list[i]).rank, it.rank)

\* The sort moved a later row ahead of an earlier one, which the limit then
\* cut from the excerpt, and a display string occurred twice.
C8_Witness ==
    /\ pc = "done"
    /\ Len(excerpt_list) >= 1
    /\ \E it \in Range(items) :
          /\ it.display \notin Range(excerpt_list)
          /\ it.rank[3] < winner(excerpt_list[Len(excerpt_list)]).rank[3]
    /\ \E a, b \in 1..Len(items) : a < b /\ items[a].display = items[b].display

HasAt(email) == \E i \in 1..Len(email) : email[i] = "@"

after_last_at(email) ==
    SubSeq(email, SetMax({i \in 1..Len(email) : email[i] = "@"}) + 1, Len(email))

\* C9: the preferred-domain-miss flag of a rank key is 0 exactly when a
\* preferred domain is set and the part of the trimmed email after its last
\* '@' equals it case-insensitively, for every email string.
C9_DomainAfterLastAt ==
    \A it \in Range(items) :
        it.rank[1] = 0 <=>
            /\ args.prefer_domain # <<>>
            /\ HasAt(field(item_row(it), idx.email))
            /\ lower(after_last_at(field(item_row(it), idx.email)))
                  = lower(args.prefer_domain)

ExpectedName(row) ==
    IF field(row, idx.name) # <<>> THEN field(row, idx.name)
    ELSE IF field(row, idx.first) # <<>> /\ field(row, idx.last) # <<>>
         THEN field(row, idx.first) \o <<" ">> \o field(row, idx.last)
         ELSE field(row, idx.first) \o field(row, idx.last)

\* C10: every row with a non-empty trimmed email yields the display string
\* "name <email>" when its name is non-empty and the bare email otherwise;
\* the name is the trimmed name field, else trimmed first and last joined by
\* one space only when both are non-empty; a column at or beyond the row's
\* length is an empty field; the no-name flag is 0 exactly for a non-empty name.
C10_DisplayString ==
    /\ Len(items) = Cardinality({k \in 1..Len(rows_read) :
                                    field(rows_read[k], idx.email) # <<>>})
    /\ \A it \in Range(items) :
          /\ field(item_row(it), idx.email) # <<>>
          /\ it.display =
                IF ExpectedName(item_row(it)) # <<>>
                THEN ExpectedName(item_row(it)) \o <<" ", "<">>
                     \o field(item_row(it), idx.email) \o <<">">>
                ELSE field(item_row(it), idx.email)
          /\ it.rank[2] = 0 <=> ExpectedName(item_row(it)) # <<>>

\* One run saw a name taken from the name column while first is present, a
\* name joined from first and last, a name from first alone on a row too
\* short for the last column, and a bare email.
C10_Witness ==
    /\ pc = "done"
    /\ idx.name # None /\ idx.first # None /\ idx.last # None
    /\ \E it \in Range(items) :
          /\ field(item_row(it), idx.name) # <<>>
          /\ field(item_row(it), idx.first) # <<>>
    /\ \E it \in Range(items) :
          /\ field(item_row(it), idx.name) = <<>>
          /\ field(item_row(it), idx.first) # <<>>
          /\ field(item_row(it), idx.last) # <<>>
    /\ \E it \in Range(items) :
          /\ field(item_row(it), idx.name) = <<>>
          /\ field(item_row(it), idx.first) # <<>>
          /\ idx.last >= Len(item_row(it))

====
